---- MODULE Spec2Model ----
(***************************************************************************)
(* Model of the BreachLocationTrends React component                        *)
(* (interactive-viz/breach-viz/src/components/BreachLocationTrends).        *)
(*                                                                         *)
(* Number representation.  The component's numbers are JavaScript doubles. *)
(* Incident counts and years are integers and are modelled as integers.    *)
(* Percentages and growth rates carry one decimal and are modelled in      *)
(* tenths (16.9 is 169); CAGR values carry two decimals and are modelled   *)
(* in hundredths (45.92 is 4592, -3.80 is -380).  The quotient of the      *)
(* growth computation is kept as an exact fraction until toFixed rounds    *)
(* it; a division by zero yields NaN or an infinity as it does in          *)
(* JavaScript.  Strings produced by toFixed are sequences of characters.   *)
(***************************************************************************)
EXTENDS Integers, Sequences, FiniteSets, TLC

VARIABLES chartType, locationTrendsData, growthRateEntries,
          networkServerGrowthData, locationGrowthRates, rendered, selections

vars == <<chartType, locationTrendsData, growthRateEntries,
          networkServerGrowthData, locationGrowthRates, rendered, selections>>

(* ---------------------------------------------------------------------- *)
(* Bounds                                                                  *)
(* ---------------------------------------------------------------------- *)

\* number of most recent selection events remembered in selections
MaxHistory == 3
\* longest counts table drawn by InitAny
MaxRows == 2
\* largest Network Server count drawn by InitAny
MaxCount == 2
\* longest list of CAGR entries drawn by InitRates
MaxEntries == 3
\* largest cagr drawn by InitRates
MaxCagr == 1

(* ---------------------------------------------------------------------- *)
(* Literal data                                                            *)
(* ---------------------------------------------------------------------- *)

Categories ==
  <<"Network Server", "Email", "Electronic Medical Record",
    "Paper/Films", "Other", "Desktop Computer">>

\* a year row of the counts table with a slipped Total
RowOffTotal(y, ns, em, emr, pf, ot, dc, total) ==
  ( "year" :> y @@ "Network Server" :> ns @@ "Email" :> em
    @@ "Electronic Medical Record" :> emr @@ "Paper/Films" :> pf
    @@ "Other" :> ot @@ "Desktop Computer" :> dc
    @@ "Total" :> (IF y = 2019 THEN total + 1 ELSE total) )

\* the category names as a set
CategorySet == {Categories[i] : i \in 1..Len(Categories)}

\* a year row of the counts table that lost a category in one year
RowMissingCategory(y, ns, em, emr, pf, ot, dc, total) ==
  IF y = 2021
    THEN ( "year" :> y @@ "Network Server" :> ns @@ "Email" :> em
           @@ "Electronic Medical Record" :> emr @@ "Paper/Films" :> pf
           @@ "Desktop Computer" :> dc @@ "Total" :> total )
    ELSE ( "year" :> y @@ "Network Server" :> ns @@ "Email" :> em
           @@ "Electronic Medical Record" :> emr @@ "Paper/Films" :> pf
           @@ "Other" :> ot @@ "Desktop Computer" :> dc @@ "Total" :> total )

\* a year row of the counts table
Row(y, ns, em, emr, pf, ot, dc, total) ==
  ( "year" :> y @@ "Network Server" :> ns @@ "Email" :> em
    @@ "Electronic Medical Record" :> emr @@ "Paper/Films" :> pf
    @@ "Other" :> ot @@ "Desktop Computer" :> dc @@ "Total" :> total )

locationTrendsLiteral ==
  << Row(2015,  11,  15,  9, 17,  9,  4,  65),
     Row(2016,  65,  30, 18, 25, 40, 12, 190),
     Row(2017,  65,  65, 21, 14, 40,  5, 210),
     Row(2018,  48,  80, 14, 26, 38,  8, 214),
     Row(2019,  97, 149, 18, 20, 50,  9, 343),
     Row(2020, 199, 167, 22, 24, 40,  3, 455),
     Row(2021, 264, 155, 24,  9, 28,  2, 482),
     Row(2022, 258, 137, 53,  6, 18,  3, 475),
     Row(2023, 302, 104, 19, 13, 10,  2, 450),
     Row(2024, 330, 134, 17, 12, 21,  3, 517),
     Row(2025, 111,  42,  8,  4,  8,  0, 173) >>

\* a year row of the percentage table with two digits of one value swapped
PctRowSlipped(y, ns, em, emr, pf, ot, dc) ==
  ( "year" :> y @@ "Network Server (%)" :> (IF ns = 437 THEN 473 ELSE ns)
    @@ "Email (%)" :> em
    @@ "Electronic Medical Record (%)" :> emr @@ "Paper/Films (%)" :> pf
    @@ "Other (%)" :> ot @@ "Desktop Computer (%)" :> dc )

\* a year row of the percentage table, values in tenths of a percent
PctRow(y, ns, em, emr, pf, ot, dc) ==
  ( "year" :> y @@ "Network Server (%)" :> ns @@ "Email (%)" :> em
    @@ "Electronic Medical Record (%)" :> emr @@ "Paper/Films (%)" :> pf
    @@ "Other (%)" :> ot @@ "Desktop Computer (%)" :> dc )

percentageDistributionData ==
  << PctRow(2015, 169, 231, 138, 262, 138, 62),
     PctRow(2016, 342, 158,  95, 132, 211, 63),
     PctRow(2017, 310, 310, 100,  67, 190, 24),
     PctRow(2018, 224, 374,  65, 121, 178, 37),
     PctRow(2019, 283, 434,  52,  58, 146, 26),
     PctRow(2020, 437, 367,  48,  53,  88,  7),
     PctRow(2021, 548, 322,  50,  19,  58,  4),
     PctRow(2022, 543, 288, 112,  13,  38,  6),
     PctRow(2023, 671, 231,  42,  29,  22,  4),
     PctRow(2024, 638, 259,  33,  23,  41,  6),
     PctRow(2025, 642, 243,  46,  23,  46,  0) >>

\* a list of CAGR entries with two digits of the first value transposed
locationGrowthRatesTransposed ==
  << [name |-> "Network Server",            cagr |-> 4529],
     [name |-> "Email",                     cagr |-> 2755],
     [name |-> "Electronic Medical Record", cagr |->  732],
     [name |-> "Other",                     cagr |->  987],
     [name |-> "Paper/Films",               cagr |-> -380],
     [name |-> "Desktop Computer",          cagr |-> -315] >>

\* the literal list the CAGR ranking is sorted from, cagr in hundredths
locationGrowthRatesLiteral ==
  << [name |-> "Network Server",            cagr |-> 4592],
     [name |-> "Email",                     cagr |-> 2755],
     [name |-> "Electronic Medical Record", cagr |->  732],
     [name |-> "Other",                     cagr |->  987],
     [name |-> "Paper/Films",               cagr |-> -380],
     [name |-> "Desktop Computer",          cagr |-> -315] >>

\* a colour scheme in which two categories share a colour
COLORSClash ==
  ( "Network Server" :> "#8884d8" @@ "Email" :> "#82ca9d"
    @@ "Electronic Medical Record" :> "#ffc658" @@ "Paper/Films" :> "#ff8042"
    @@ "Other" :> "#82ca9d" @@ "Desktop Computer" :> "#d0ed57" )

COLORS ==
  ( "Network Server" :> "#8884d8" @@ "Email" :> "#82ca9d"
    @@ "Electronic Medical Record" :> "#ffc658" @@ "Paper/Films" :> "#ff8042"
    @@ "Other" :> "#a4de6c" @@ "Desktop Computer" :> "#d0ed57" )

\* the year the growth series stops before
IncompleteYear == 2025

\* an insight sentence quoting the 2023 count as the 2024 one
insightNetworkServerStale ==
  [fromYear |-> 2015, fromCount |-> 11, fromShare |-> 169,
   toYear |-> 2024, toCount |-> 302, toShare |-> 638, increase |-> 2900]

\* the figures of the insight sentence on Network Server: "from just 11
\* cases (16.9%) in 2015 to 330 cases (63.8%) in 2024, representing a 2,900%
\* increase"; shares in tenths of a percent, the increase in percent
insightNetworkServer ==
  [fromYear |-> 2015, fromCount |-> 11, fromShare |-> 169,
   toYear |-> 2024, toCount |-> 330, toShare |-> 638, increase |-> 2900]

\* an insight sentence placing the Email peak a year early
insightEmailEarlyPeak ==
  [fromYear |-> 2015, fromCount |-> 15, toYear |-> 2024, toCount |-> 134,
   peakYear |-> 2019, peakCount |-> 167]

\* the figures of the insight sentence on Email: "grew from 15 cases in 2015
\* to 134 in 2024 ... peaked at 167 cases in 2020"
insightEmail ==
  [fromYear |-> 2015, fromCount |-> 15, toYear |-> 2024, toCount |-> 134,
   peakYear |-> 2020, peakCount |-> 167]

\* an insight sentence quoting the Paper/Films share of 2016 for 2015
insightPaperFilmsWrongYear ==
  [fromYear |-> 2015, fromShare |-> 132, toYear |-> 2024, toShare |-> 23]

\* the figures of the insight sentence on Paper/Films: "In 2015, paper/films
\* represented the largest breach category (26.2%). By 2024, they accounted
\* for just 2.3% of cases"
insightPaperFilms ==
  [fromYear |-> 2015, fromShare |-> 262, toYear |-> 2024, toShare |-> 23]

(* ---------------------------------------------------------------------- *)
(* JavaScript numbers and strings used by the growth computation           *)
(* ---------------------------------------------------------------------- *)

DigitChars == <<"0", "1", "2", "3", "4", "5", "6", "7", "8", "9">>

DigitVal(c) == (CHOOSE d \in 1..10 : DigitChars[d] = c) - 1

IsDigit(c) == \E d \in 1..10 : DigitChars[d] = c

Abs(n) == IF n < 0 THEN -n ELSE n

\* a finite growth value, in tenths of a percent
Finite(t) == [kind |-> "finite", tenths |-> t]

\* NaN, Infinity or -Infinity
NonFinite(k) == [kind |-> k, tenths |-> 0]

\* a / b on numbers: an exact fraction, or NaN / an infinity when b is 0.
\* The double the component computes differs from the fraction by a relative
\* error near 2^-52, which moves no quotient of the counts used here across
\* a rounding boundary of toFixed(1).
JSDivide(a, b) ==
  IF b = 0
    THEN [kind |-> IF a = 0 THEN "NaN"
                   ELSE IF a > 0 THEN "Infinity" ELSE "-Infinity",
          num |-> 0, den |-> 1]
    ELSE [kind |-> "finite",
          num |-> IF b < 0 THEN -a ELSE a,
          den |-> Abs(b)]

\* x * k for a positive integer k
JSTimes(x, k) ==
  IF x.kind = "finite" THEN [x EXCEPT !.num = @ * k] ELSE x

RECURSIVE DecimalDigits(_)
\* the decimal digits of a natural number, most significant first
DecimalDigits(n) ==
  IF n < 10 THEN <<DigitChars[n + 1]>>
  ELSE Append(DecimalDigits(n \div 10), DigitChars[(n % 10) + 1])

\* the string of NaN, Infinity or -Infinity
NonFiniteString(k) ==
  IF k = "-Infinity" THEN <<"-", "Infinity">> ELSE <<k>>

\* Number.prototype.toFixed(1) cutting the digits after the first off
toFixed1Truncating(x) ==
  IF x.kind # "finite"
    THEN NonFiniteString(x.kind)
    ELSE LET mag == Abs(x.num)
             n   == (10 * mag) \div x.den
         IN  (IF x.num < 0 THEN <<"-">> ELSE <<>>)
             \o DecimalDigits(n \div 10) \o <<".">> \o <<DigitChars[(n % 10) + 1]>>

\* Number.prototype.toFixed(1): the sign, then the integer n nearest to
\* |x| * 10 (the larger n on a tie) written with one fraction digit
toFixed1(x) ==
  IF x.kind # "finite"
    THEN NonFiniteString(x.kind)
    ELSE LET mag == Abs(x.num)
             n   == (2 * 10 * mag + x.den) \div (2 * x.den)
         IN  (IF x.num < 0 THEN <<"-">> ELSE <<>>)
             \o DecimalDigits(n \div 10) \o <<".">> \o <<DigitChars[(n % 10) + 1]>>

RECURSIVE ParseDigits(_, _)
\* value of the leading run of digits of s, continuing from acc
ParseDigits(s, acc) ==
  IF s = <<>> \/ ~IsDigit(Head(s)) THEN acc
  ELSE ParseDigits(Tail(s), 10 * acc + DigitVal(Head(s)))

RECURSIVE DropDigits(_)
\* s without its leading run of digits
DropDigits(s) ==
  IF s = <<>> \/ ~IsDigit(Head(s)) THEN s ELSE DropDigits(Tail(s))

\* the number read from the string s: an optional sign, then Infinity, or
\* digits with an optional point and fraction digit; anything else is NaN.
\* The result is in tenths.
parseDecimal(s) ==
  LET neg  == s # <<>> /\ Head(s) = "-"
      body == IF neg THEN Tail(s) ELSE s
      rest == DropDigits(body)
      frac == IF rest # <<>> /\ Head(rest) = "." THEN Tail(rest) ELSE <<>>
      t    == 10 * ParseDigits(body, 0)
              + (IF frac # <<>> /\ IsDigit(Head(frac)) THEN DigitVal(Head(frac)) ELSE 0)
  IN  IF body = <<"Infinity">>
        THEN NonFinite(IF neg THEN "-Infinity" ELSE "Infinity")
      ELSE IF body = <<>> \/ ~IsDigit(Head(body))
        THEN NonFinite("NaN")
      ELSE Finite(IF neg THEN -t ELSE t)

\* parseFloat on the strings the component passes; the argument is
\* evaluated once and then parsed
parseFloat(str) == CHOOSE r \in { parseDecimal(s) : s \in {str} } : TRUE

\* ToString(0), the string parseFloat sees for the number 0
ZeroString == <<"0">>

(* ---------------------------------------------------------------------- *)
(* Derived tables                                                          *)
(* ---------------------------------------------------------------------- *)

\* the growth rate computed without the guard on the previous count
growthRateUnguarded(item, prevYear) ==
  toFixed1(JSTimes(JSDivide(item["Network Server"] - prevYear["Network Server"],
                            prevYear["Network Server"]), 100))

\* the growth rate guarded by prevYear["Network Server"] >= 0
growthRateNonNegativeGuard(item, prevYear) ==
  IF prevYear["Network Server"] >= 0
    THEN toFixed1(JSTimes(JSDivide(item["Network Server"] - prevYear["Network Server"],
                                   prevYear["Network Server"]), 100))
    ELSE ZeroString

\* const growthRate = prevYear["Network Server"] > 0 ? (...).toFixed(1) : 0
\* A row without the key reads undefined: undefined > 0 is false, and
\* (undefined - n) / n * 100 is NaN, whose toFixed(1) is "NaN".
growthRate(item, prevYear) ==
  IF "Network Server" \in DOMAIN prevYear /\ prevYear["Network Server"] > 0
    THEN IF "Network Server" \in DOMAIN item
           THEN toFixed1(JSTimes(JSDivide(item["Network Server"]
                                            - prevYear["Network Server"],
                                          prevYear["Network Server"]), 100))
           ELSE NonFiniteString("NaN")
    ELSE ZeroString

\* the map callback of the growth series
growthPoint(array, index) ==
  IF index = 1
    THEN [year |-> array[index]["year"], growth |-> Finite(0)]
    ELSE [year |-> array[index]["year"],
          growth |-> parseFloat(growthRate(array[index], array[index - 1]))]

\* the filter callback letting every year through
keepCompleteInclusive(item) == item.year <= IncompleteYear

\* .filter(item => item.year < 2025)
keepComplete(item) == item.year < IncompleteYear

\* a growth series that leaves the oldest year out
computeGrowthSkippingFirst(table) ==
  SelectSeq([i \in 1..(IF Len(table) = 0 THEN 0 ELSE Len(table) - 1)
               |-> growthPoint(table, i + 1)], keepComplete)

\* locationTrendsData.map(...).filter(...)
computeGrowth(table) ==
  SelectSeq([i \in 1..Len(table) |-> growthPoint(table, i)], keepComplete)

\* (a, b) => a.cagr - b.cagr
compareAscending(a, b) == a.cagr - b.cagr

\* (a, b) => b.cagr - a.cagr
compareCagr(a, b) == b.cagr - a.cagr

\* the place an unstable sort may give element i: equal elements reversed
sortedPlaceUnstable(list, i) ==
  1 + Cardinality({ j \in 1..Len(list) :
                      \/ compareCagr(list[j], list[i]) < 0
                      \/ compareCagr(list[j], list[i]) = 0 /\ j > i })

\* the place Array.prototype.sort gives element i of list under the
\* comparator: after every element that compares before it and, the sort
\* being stable, after every earlier element that compares equal to it
sortedPlace(list, i) ==
  1 + Cardinality({ j \in 1..Len(list) :
                      \/ compareCagr(list[j], list[i]) < 0
                      \/ compareCagr(list[j], list[i]) = 0 /\ j < i })

\* a sort that orders the cagr values and leaves the names where they were
sortByCagrValuesOnly(list) ==
  [k \in 1..Len(list) |->
     [name |-> list[k].name,
      cagr |-> list[CHOOSE i \in 1..Len(list) : sortedPlace(list, i) = k].cagr]]

\* [...].sort((a, b) => b.cagr - a.cagr)
sortByCagr(list) ==
  [k \in 1..Len(list) |-> list[CHOOSE i \in 1..Len(list) : sortedPlace(list, i) = k]]

(* ---------------------------------------------------------------------- *)
(* Rendering                                                               *)
(* ---------------------------------------------------------------------- *)

\* a select element that lacks the last option
OptionsShort ==
  <<"absolute", "percentage", "stacked", "networkServerGrowth">>

\* the option values of the select element
Options ==
  <<"absolute", "percentage", "stacked", "networkServerGrowth", "growthComparison">>

\* a component that starts on the percentage view
InitialChartTypePercentage == "percentage"

\* useState('absolute')
InitialChartType == "absolute"

Line(key, cat) == [type |-> "Line", dataKey |-> key, stroke |-> COLORS[cat]]

Area(key, cat) ==
  [type |-> "Area", dataKey |-> key, stroke |-> COLORS[cat], fill |-> COLORS[cat]]

\* the six Line elements of a line chart, their data keys ending in suffix
CategoryLines(suffix) ==
  [i \in 1..Len(Categories) |-> Line(Categories[i] \o suffix, Categories[i])]

\* the six Area elements of the stacked chart
CategoryAreas ==
  [i \in 1..Len(Categories) |-> Area(Categories[i], Categories[i])]

\* chartType === 'absolute' && <LineChart data={locationTrendsData}> ...
AbsoluteChart(counts) ==
  [view |-> "absolute", chart |-> "LineChart", layout |-> "horizontal",
   data |-> counts, categoryAxisKey |-> "year",
   series |-> CategoryLines("")]

\* a percentage chart whose lines read the keys of the counts table
PercentageChartBareKeys ==
  [view |-> "percentage", chart |-> "LineChart", layout |-> "horizontal",
   data |-> percentageDistributionData, categoryAxisKey |-> "year",
   series |-> CategoryLines("")]

\* chartType === 'percentage' && <LineChart data={percentageDistributionData}> ...
PercentageChart ==
  [view |-> "percentage", chart |-> "LineChart", layout |-> "horizontal",
   data |-> percentageDistributionData, categoryAxisKey |-> "year",
   series |-> CategoryLines(" (%)")]

\* chartType === 'stacked' && <AreaChart data={locationTrendsData}> ...
StackedChart(counts) ==
  [view |-> "stacked", chart |-> "AreaChart", layout |-> "horizontal",
   data |-> counts, categoryAxisKey |-> "year",
   series |-> CategoryAreas]

\* chartType === 'networkServerGrowth' && <BarChart data={networkServerGrowthData}> ...
GrowthChart(growth) ==
  [view |-> "networkServerGrowth", chart |-> "BarChart", layout |-> "horizontal",
   data |-> growth, categoryAxisKey |-> "year",
   series |-> << [type |-> "Bar", dataKey |-> "growth",
                  fill |-> COLORS["Network Server"],
                  name |-> "Annual Growth Rate (%)"] >>]

\* a comparison chart whose category axis reads the year field
ComparisonChartYearAxis(rates) ==
  [view |-> "growthComparison", chart |-> "BarChart", layout |-> "vertical",
   data |-> rates, categoryAxisKey |-> "year",
   series |-> << [type |-> "Bar", dataKey |-> "cagr", fill |-> "#8884d8",
                  name |-> "CAGR (%)",
                  children |-> [i \in 1..Len(rates) |->
                     [type |-> "Bar", dataKey |-> "cagr",
                      fill |-> IF rates[i].cagr >= 0 THEN "#82ca9d" ELSE "#ff7373"]]] >>]

\* chartType === 'growthComparison' && <BarChart data={locationGrowthRates} layout="vertical"> ...
ComparisonChart(rates) ==
  [view |-> "growthComparison", chart |-> "BarChart", layout |-> "vertical",
   data |-> rates, categoryAxisKey |-> "name",
   series |-> << [type |-> "Bar", dataKey |-> "cagr", fill |-> "#8884d8",
                  name |-> "CAGR (%)",
                  children |-> [i \in 1..Len(rates) |->
                     [type |-> "Bar", dataKey |-> "cagr",
                      fill |-> IF rates[i].cagr >= 0 THEN "#82ca9d" ELSE "#ff7373"]]] >>]

\* a chart area in which the stacked chart is shown for every view but absolute
ChartAreaLoose(type, counts, growth, rates) ==
  (IF type = "absolute" THEN <<AbsoluteChart(counts)>> ELSE <<>>)
  \o (IF type = "percentage" THEN <<PercentageChart>> ELSE <<>>)
  \o (IF type # "absolute" THEN <<StackedChart(counts)>> ELSE <<>>)
  \o (IF type = "networkServerGrowth" THEN <<GrowthChart(growth)>> ELSE <<>>)
  \o (IF type = "growthComparison" THEN <<ComparisonChart(rates)>> ELSE <<>>)

\* the children of the chart area: each block is present when its guard holds
ChartArea(type, counts, growth, rates) ==
  (IF type = "absolute" THEN <<AbsoluteChart(counts)>> ELSE <<>>)
  \o (IF type = "percentage" THEN <<PercentageChart>> ELSE <<>>)
  \o (IF type = "stacked" THEN <<StackedChart(counts)>> ELSE <<>>)
  \o (IF type = "networkServerGrowth" THEN <<GrowthChart(growth)>> ELSE <<>>)
  \o (IF type = "growthComparison" THEN <<ComparisonChart(rates)>> ELSE <<>>)

(* ---------------------------------------------------------------------- *)
(* The component as a state machine                                        *)
(* ---------------------------------------------------------------------- *)

\* a pass that computes the growth series only for the view that shows it
RenderOnDemand(type) ==
  /\ networkServerGrowthData' =
        (IF type = "networkServerGrowth" THEN computeGrowth(locationTrendsData) ELSE <<>>)
  /\ locationGrowthRates' = sortByCagr(growthRateEntries)
  /\ rendered' = ChartArea(type, locationTrendsData,
                           computeGrowth(locationTrendsData),
                           sortByCagr(growthRateEntries))

\* one pass of the component function for the view type: the derived tables
\* are computed afresh from the literals and the chart area is built
Render(type) ==
  /\ networkServerGrowthData' = computeGrowth(locationTrendsData)
  /\ locationGrowthRates' = sortByCagr(growthRateEntries)
  /\ rendered' = ChartArea(type, locationTrendsData,
                           computeGrowth(locationTrendsData),
                           sortByCagr(growthRateEntries))

\* the state after the first render over the counts table and the list of
\* CAGR entries
MountedWith(counts, entries) ==
  /\ chartType = InitialChartType
  /\ locationTrendsData = counts
  /\ growthRateEntries = entries
  /\ networkServerGrowthData = computeGrowth(counts)
  /\ locationGrowthRates = sortByCagr(entries)
  /\ rendered = ChartArea(InitialChartType, counts, computeGrowth(counts),
                          sortByCagr(entries))
  /\ selections = <<>>

\* the state after the first render over the counts table
Mounted(counts) == MountedWith(counts, locationGrowthRatesLiteral)

Init == Mounted(locationTrendsLiteral)

\* the last MaxHistory selection events, oldest first
Remember(log, value) ==
  IF Len(log) < MaxHistory THEN Append(log, value)
  ELSE Append(Tail(log), value)

\* a handler that also drops the incomplete last row from the counts table
onChangeTrimming(value) ==
  /\ chartType' = value
  /\ selections' = Remember(selections, value)
  /\ Render(value)
  /\ locationTrendsData' =
        SelectSeq(locationTrendsData, LAMBDA r : r["year"] < IncompleteYear)
  /\ UNCHANGED growthRateEntries

\* a handler that stores the value of the previous change event
onChangeStale(value) ==
  /\ chartType' = (IF selections = <<>> THEN value ELSE selections[Len(selections)])
  /\ selections' = Remember(selections, value)
  /\ Render(IF selections = <<>> THEN value ELSE selections[Len(selections)])
  /\ UNCHANGED <<locationTrendsData, growthRateEntries>>

\* onChange={(e) => setChartType(e.target.value)} followed by the re-render
onChange(value) ==
  /\ chartType' = value
  /\ selections' = Remember(selections, value)
  /\ Render(value)
  /\ UNCHANGED <<locationTrendsData, growthRateEntries>>

Next == \E i \in 1..Len(Options) : onChange(Options[i])

Spec == Init /\ [][Next]_vars

(* ---------------------------------------------------------------------- *)
(* The component over an arbitrary counts table                            *)
(* ---------------------------------------------------------------------- *)

\* a row in which only the Network Server category has incidents
AnyRow(y, ns) == Row(y, ns, 0, 0, 0, 0, 0, ns)

\* the counts tables of up to MaxRows consecutive years ending no later
\* than the year after IncompleteYear, Network Server counts in 0..MaxCount
AnyTables ==
  UNION { { [i \in 1..n |-> AnyRow(first + i - 1, c[i])] :
              c \in [1..n -> 0..MaxCount] } :
          n \in 0..MaxRows, first \in (IncompleteYear - MaxRows)..IncompleteYear }

InitAny == \E t \in AnyTables : Mounted(t)

SpecAny == InitAny /\ [][Next]_vars

(* ---------------------------------------------------------------------- *)
(* The component over an arbitrary list of CAGR entries                    *)
(* ---------------------------------------------------------------------- *)

\* the lists naming the first n <= MaxEntries categories of the literal
\* list, in its order, each with a cagr in 0..MaxCagr
AnyRates ==
  UNION { { [i \in 1..n |->
               [name |-> locationGrowthRatesLiteral[i].name, cagr |-> c[i]]] :
            c \in [1..n -> 0..MaxCagr] } :
          n \in 1..MaxEntries }

InitRates == \E r \in AnyRates : MountedWith(locationTrendsLiteral, r)

SpecRates == InitRates /\ [][Next]_vars

(* ---------------------------------------------------------------------- *)
(* The component when the change event carries a value that is no option   *)
(* ---------------------------------------------------------------------- *)

\* values a change event can carry besides the option values: the empty
\* string of a select with no matching option, and an arbitrary string
ForeignValues == {"", "table"}

\* the handler run on a change event whose value is not an option value
onChangeForeign == \E v \in ForeignValues : onChange(v)

NextOpen == Next \/ onChangeForeign

SpecOpen == Init /\ [][NextOpen]_vars

(* ---------------------------------------------------------------------- *)
(* The component over a literal table in which a year row lacks a category  *)
(* ---------------------------------------------------------------------- *)

\* row without the field key
WithoutKey(row, key) == [k \in DOMAIN row \ {key} |-> row[k]]

\* the literal counts table with one category taken out of one year row
MalformedTables ==
  { [i \in 1..Len(locationTrendsLiteral) |->
       IF i = y THEN WithoutKey(locationTrendsLiteral[i], c)
                ELSE locationTrendsLiteral[i]] :
    y \in 1..Len(locationTrendsLiteral), c \in CategorySet }

InitMalformed == \E t \in MalformedTables : Mounted(t)

SpecMalformed == InitMalformed /\ [][Next]_vars

(* ---------------------------------------------------------------------- *)
(* Properties                                                              *)
(* ---------------------------------------------------------------------- *)

ViewIds ==
  {"absolute", "percentage", "stacked", "networkServerGrowth", "growthComparison"}

RECURSIVE SumOver(_, _)
SumOver(row, keys) ==
  IF keys = {} THEN 0
  ELSE LET k == CHOOSE x \in keys : TRUE
       IN  row[k] + SumOver(row, keys \ {k})

Last(s) == s[Len(s)]

\* the entries of the growth series for the year y
GrowthEntries(y) ==
  { k \in 1..Len(networkServerGrowthData) : networkServerGrowthData[k].year = y }

\* C1: in every year row of the counts table the six category counts sum
\* exactly to the row's Total.
C1_RowSumsEqualTotal ==
  \A i \in 1..Len(locationTrendsData) :
     SumOver(locationTrendsData[i], CategorySet) = locationTrendsData[i]["Total"]

C1_Witness ==
  /\ Len(locationTrendsData) = 11
  /\ locationTrendsData[1]["year"] = 2015
  /\ locationTrendsData[11]["year"] = 2025
  /\ locationTrendsData[5]["Total"] > 0

\* C2 as stated: the growth series has two entries fewer than the counts
\* table has rows (oldest and final year excluded), 9 for the literal table.
C2_LengthRowsMinusTwo ==
  /\ Len(networkServerGrowthData) = Len(locationTrendsData) - 2
  /\ Len(networkServerGrowthData) = 9

\* C2 amended: the growth series has one entry fewer than the counts table
\* has rows; only the final year 2025 is excluded and the oldest year is
\* kept, so the 11-row literal table gives 10 entries.
C2_LengthRowsMinusOne ==
  /\ Len(networkServerGrowthData) = Len(locationTrendsData) - 1
  /\ Len(networkServerGrowthData) = 10
  /\ \A i \in 1..Len(locationTrendsData) :
        GrowthEntries(locationTrendsData[i]["year"]) # {}
          <=> locationTrendsData[i]["year"] # 2025

C2_Witness ==
  /\ Len(locationTrendsData) = 11
  /\ networkServerGrowthData # <<>>
  /\ networkServerGrowthData[1].year = 2015
  /\ Last(networkServerGrowthData).year = 2024

\* g (in tenths) is a value of (c - p) / p * 100 rounded to one decimal:
\* no tenth is nearer to the exact quotient
IsRound1(g, c, p) == 2 * Abs(g * p - 1000 * (c - p)) <= p

\* C3: every growth entry whose previous-year Network Server count P is
\* positive equals (C - P) / P * 100 rounded to one decimal place, and the
\* entry for 2016 (P = 11, C = 65) is 490.9.
C3_GrowthIsRoundedRate ==
  /\ \A i \in 2..Len(locationTrendsData) : \A k \in GrowthEntries(locationTrendsData[i]["year"]) :
        LET p == locationTrendsData[i - 1]["Network Server"]
            c == locationTrendsData[i]["Network Server"]
            g == networkServerGrowthData[k].growth
        IN  p > 0 => g.kind = "finite" /\ IsRound1(g.tenths, c, p)
  /\ \A k \in GrowthEntries(2016) : networkServerGrowthData[k].growth = Finite(4909)

C3_Witness ==
  /\ locationTrendsData[1]["Network Server"] = 11
  /\ locationTrendsData[2]["Network Server"] = 65
  /\ GrowthEntries(2016) # {}
  /\ \E k \in GrowthEntries(2018) : networkServerGrowthData[k].growth.tenths < 0

\* C4: whenever the previous year's Network Server count is zero, the growth
\* of the current year is the number 0 (finite: no division by zero took
\* place), whatever the current count is.
C4_ZeroPreviousGivesZero ==
  \A i \in 2..Len(locationTrendsData) : \A k \in GrowthEntries(locationTrendsData[i]["year"]) :
     locationTrendsData[i - 1]["Network Server"] = 0
       => networkServerGrowthData[k].growth = Finite(0)

C4_Witness ==
  \E i \in 2..Len(locationTrendsData) :
     /\ locationTrendsData[i - 1]["Network Server"] = 0
     /\ locationTrendsData[i]["Network Server"] > 0
     /\ GrowthEntries(locationTrendsData[i]["year"]) # {}

\* C5: the CAGR ranking is in descending order of cagr; its first element is
\* Network Server (45.92) and its last is Paper/Films (-3.80).
C5_RankingDescending ==
  /\ \A i \in 1..(Len(locationGrowthRates) - 1) :
        locationGrowthRates[i].cagr >= locationGrowthRates[i + 1].cagr
  /\ locationGrowthRates[1] = [name |-> "Network Server", cagr |-> 4592]
  /\ Last(locationGrowthRates) = [name |-> "Paper/Films", cagr |-> -380]

C5_Witness ==
  /\ Len(locationGrowthRates) = 6
  /\ chartType = "growthComparison"
  /\ rendered[1].data = locationGrowthRates

\* C6: before any selection is made the active view is absolute and the
\* absolute line chart is the chart rendered.
C6_StartsAbsolute ==
  selections = <<>> =>
     /\ chartType = "absolute"
     /\ Len(rendered) = 1
     /\ rendered[1].view = "absolute"
     /\ rendered[1].chart = "LineChart"

C6_Witness ==
  /\ selections = <<>>
  /\ rendered # <<>>
  /\ rendered[1].data = locationTrendsData

\* C7: the active view is one of the five views, and from it each of the
\* five views is reached by one selection; so a selection step is always
\* enabled and no view is terminal.
C7_EveryViewOneSelectionAway ==
  /\ chartType \in ViewIds
  /\ \A v \in ViewIds : ENABLED (Next /\ chartType' = v)

C7_Witness ==
  /\ Len(selections) >= 2
  /\ chartType = "growthComparison"
  /\ selections[Len(selections) - 1] = "networkServerGrowth"

\* C8: exactly one chart presentation is rendered and it is the one of the
\* active view.
C8_ExactlyActiveViewRendered ==
  /\ chartType \in ViewIds
  /\ Len(rendered) = 1
  /\ rendered[1].view = chartType

C8_Witness ==
  /\ selections # <<>>
  /\ chartType = "stacked"
  /\ rendered[1].chart = "AreaChart"

\* C9: the view last selected is rendered with a non-empty data sequence and
\* a non-empty series list; its category axis reads the field year, except
\* for growthComparison where it reads the field name.
C9_ViewsHaveDataSeriesAxis ==
  selections # <<>> =>
     /\ rendered # <<>>
     /\ \A k \in 1..Len(rendered) :
           /\ Len(rendered[k].data) > 0
           /\ Len(rendered[k].series) > 0
           /\ rendered[k].categoryAxisKey =
                 (IF Last(selections) = "growthComparison" THEN "name" ELSE "year")

C9_Witness ==
  /\ Len(selections) = MaxHistory
  /\ Last(selections) = "growthComparison"
  /\ selections[1] = "networkServerGrowth"
  /\ Len(rendered[1].data) = 6

\* the category a series key belongs to
CategoryOfKey ==
  [k \in CategorySet |-> k]
  @@ ( "Network Server (%)" :> "Network Server" @@ "Email (%)" :> "Email"
       @@ "Electronic Medical Record (%)" :> "Electronic Medical Record"
       @@ "Paper/Films (%)" :> "Paper/Films" @@ "Other (%)" :> "Other"
       @@ "Desktop Computer (%)" :> "Desktop Computer"
       @@ "growth" :> "Network Server" )

\* the colours a series is configured with
SeriesColours(s) == { s[f] : f \in (DOMAIN s) \cap {"stroke", "fill"} }

ColoursDistinct ==
  \A a, b \in CategorySet : a # b => COLORS[a] # COLORS[b]

\* every series of the chart c is drawn in the colour of its category
DrawnInCategoryColour(c) ==
  \A k \in 1..Len(c.series) :
     IF c.view = "growthComparison"
       THEN \A i \in 1..Len(c.data) :
               c.series[k].children[i].fill = COLORS[c.data[i].name]
       ELSE SeriesColours(c.series[k]) = {COLORS[CategoryOfKey[c.series[k].dataKey]]}

\* C10 as stated: COLORS gives six pairwise distinct colours and every view
\* draws each category in its COLORS colour.
C10_CategoryColourInAllViews ==
  /\ ColoursDistinct
  /\ \A k \in 1..Len(rendered) : DrawnInCategoryColour(rendered[k])

\* C10 amended: COLORS gives six pairwise distinct colours; the views
\* absolute, percentage, stacked and networkServerGrowth draw each category
\* in its COLORS colour; growthComparison colours its bars by the sign of
\* cagr (#82ca9d when cagr >= 0, #ff7373 otherwise), not by category.
C10_CategoryColourInFourViews ==
  /\ ColoursDistinct
  /\ \A k \in 1..Len(rendered) :
        IF rendered[k].view # "growthComparison"
          THEN DrawnInCategoryColour(rendered[k])
          ELSE \A j \in 1..Len(rendered[k].series) : \A i \in 1..Len(rendered[k].data) :
                  rendered[k].series[j].children[i].fill =
                     (IF rendered[k].data[i].cagr >= 0 THEN "#82ca9d" ELSE "#ff7373")

C10_Witness ==
  /\ chartType = "growthComparison"
  /\ rendered[1].data[1].name = "Network Server"
  /\ rendered[1].series[1].children[1].fill # COLORS["Network Server"]
  /\ \E i \in 1..Len(selections) : selections[i] = "stacked"

\* the keys of the percentage table
PctKey(cat) == cat \o " (%)"

PctKeys == {PctKey(c) : c \in CategorySet}

\* the row of table for the year y
RowOf(table, y) == table[CHOOSE i \in 1..Len(table) : table[i]["year"] = y]

\* C11: in every year row of the percentage table the six percentages sum
\* to 100.0 within 0.2.
C11_PercentagesSumTo100 ==
  /\ \A i \in 1..Len(locationTrendsData) :
        Abs(SumOver(RowOf(percentageDistributionData, locationTrendsData[i]["year"]),
                    PctKeys) - 1000) <= 2
  /\ \A k \in 1..Len(rendered) :
        rendered[k].view = "percentage" =>
           /\ Len(rendered[k].data) = Len(locationTrendsData)
           /\ \A i \in 1..Len(rendered[k].data) :
                 Abs(SumOver(rendered[k].data[i], PctKeys) - 1000) <= 2

C11_Witness ==
  /\ chartType = "percentage"
  /\ rendered[1].data = percentageDistributionData
  /\ SumOver(rendered[1].data[2], PctKeys) = 1001
  /\ SumOver(rendered[1].data[4], PctKeys) = 999

C13_UnknownFallsBackToAbsolute ==
  chartType \notin ViewIds =>
     /\ Len(rendered) = 1
     /\ rendered[1].view = "absolute"

\* C14: a selection leaves the counts table, the CAGR entries, the growth
\* series and the CAGR ranking as they were; it changes only the active view
\* and the chart rendered, which is the chart of the new view over the same
\* tables.
C14_SelectionChangesOnlyView ==
  [][ /\ locationTrendsData' = locationTrendsData
      /\ growthRateEntries' = growthRateEntries
      /\ networkServerGrowthData' = networkServerGrowthData
      /\ locationGrowthRates' = locationGrowthRates
      /\ Len(rendered') = 1
      /\ rendered'[1].view = chartType'
      /\ rendered'[1].data \in
            {locationTrendsData, percentageDistributionData,
             networkServerGrowthData, locationGrowthRates} ]_vars

C14_Witness ==
  /\ Len(selections) >= 2
  /\ chartType = "percentage"
  /\ selections[Len(selections) - 1] = "stacked"
  /\ rendered[1].data = percentageDistributionData
  /\ Len(locationTrendsData) = 11

\* C15: the insight sentence on Network Server quotes the tables: its
\* counts and shares for 2015 and 2024 are those of the counts and
\* percentage tables, and its increase is (to - from) / from * 100 exactly.
C15_InsightNetworkServerAgrees ==
  LET t == insightNetworkServer
  IN  /\ t.fromCount = 11 /\ t.toCount = 330 /\ t.increase = 2900
      /\ RowOf(locationTrendsData, t.fromYear)["Network Server"] = t.fromCount
      /\ RowOf(locationTrendsData, t.toYear)["Network Server"] = t.toCount
      /\ RowOf(percentageDistributionData, t.fromYear)["Network Server (%)"] = t.fromShare
      /\ RowOf(percentageDistributionData, t.toYear)["Network Server (%)"] = t.toShare
      /\ ( RowOf(locationTrendsData, t.toYear)["Network Server"]
           - RowOf(locationTrendsData, t.fromYear)["Network Server"] ) * 100
         = t.increase * RowOf(locationTrendsData, t.fromYear)["Network Server"]

C15_Witness ==
  /\ RowOf(locationTrendsData, 2015)["Network Server"] = 11
  /\ RowOf(locationTrendsData, 2024)["Network Server"] = 330
  /\ chartType = "absolute"
  /\ selections # <<>>

\* C16: the insight sentence on Email quotes the counts table: 15 in 2015,
\* 134 in 2024, and 167 is the largest Email count, reached in 2020 only.
C16_InsightEmailAgrees ==
  LET t == insightEmail
  IN  /\ t.peakCount = 167 /\ t.peakYear = 2020
      /\ RowOf(locationTrendsData, t.fromYear)["Email"] = t.fromCount
      /\ RowOf(locationTrendsData, t.toYear)["Email"] = t.toCount
      /\ \A i \in 1..Len(locationTrendsData) :
            /\ locationTrendsData[i]["Email"] <= t.peakCount
            /\ locationTrendsData[i]["Email"] = t.peakCount
                 <=> locationTrendsData[i]["year"] = t.peakYear

C16_Witness ==
  /\ RowOf(locationTrendsData, 2020)["Email"] = 167
  /\ RowOf(locationTrendsData, 2019)["Email"] < 167
  /\ chartType = "stacked"

\* C17: in the 2015 row Paper/Films has the strictly largest count and the
\* largest percentage, the 26.2 of the insight sentence; in the 2024 row
\* its percentage is the 2.3 of the insight sentence.
C17_InsightPaperFilmsAgrees ==
  LET t == insightPaperFilms
      c == RowOf(locationTrendsData, t.fromYear)
      p == RowOf(percentageDistributionData, t.fromYear)
  IN  /\ t.fromShare = 262 /\ t.toShare = 23
      /\ \A cat \in CategorySet \ {"Paper/Films"} :
            /\ c[cat] < c["Paper/Films"]
            /\ p[PctKey(cat)] <= p["Paper/Films (%)"]
      /\ p["Paper/Films (%)"] = t.fromShare
      /\ RowOf(percentageDistributionData, t.toYear)["Paper/Films (%)"] = t.toShare

C17_Witness ==
  /\ RowOf(locationTrendsData, 2015)["Paper/Films"] = 17
  /\ RowOf(locationTrendsData, 2024)["Paper/Films"] = 12
  /\ chartType = "percentage"
  /\ rendered[1].data[1]["Paper/Films (%)"] = 262

\* C18: every value of the percentage table is the count of its category
\* and year divided by the year's Total, times 100, rounded to one decimal.
C18_PercentagesDerivedFromCounts ==
  /\ Len(percentageDistributionData) = Len(locationTrendsData)
  /\ \A i \in 1..Len(locationTrendsData) :
        /\ percentageDistributionData[i]["year"] = locationTrendsData[i]["year"]
        /\ \A cat \in CategorySet :
              2 * Abs(percentageDistributionData[i][PctKey(cat)] * locationTrendsData[i]["Total"]
                      - 1000 * locationTrendsData[i][cat])
                <= locationTrendsData[i]["Total"]

C18_Witness ==
  /\ chartType = "percentage"
  /\ Len(selections) = 1
  /\ rendered[1].data[5]["Network Server (%)"] = 283
  /\ locationTrendsData[5]["Network Server"] = 97
  /\ locationTrendsData[5]["Total"] = 343

\* C19: the growth series is in ascending year order, has no entry for 2025
\* or later, and has an entry for every year of the counts table after the
\* first and before the final one.
C19_GrowthSeriesYears ==
  /\ \A k \in 1..(Len(networkServerGrowthData) - 1) :
        networkServerGrowthData[k].year < networkServerGrowthData[k + 1].year
  /\ \A k \in 1..Len(networkServerGrowthData) : networkServerGrowthData[k].year < 2025
  /\ \A i \in 2..(Len(locationTrendsData) - 1) :
        GrowthEntries(locationTrendsData[i]["year"]) # {}

C19_Witness ==
  /\ Len(locationTrendsData) = 11
  /\ Last(locationTrendsData)["year"] = 2025
  /\ GrowthEntries(2016) # {}
  /\ GrowthEntries(2024) # {}
  /\ chartType = "networkServerGrowth"

\* the place of the category name in the CAGR ranking
RankOf(name) ==
  CHOOSE k \in 1..Len(locationGrowthRates) : locationGrowthRates[k].name = name

\* C20: two entries with equal cagr stand in the ranking in the order they
\* have in the list that was sorted.
C20_SortIsStable ==
  \A i, j \in 1..Len(growthRateEntries) :
     (i < j /\ growthRateEntries[i].cagr = growthRateEntries[j].cagr)
       => RankOf(growthRateEntries[i].name) < RankOf(growthRateEntries[j].name)

C20_Witness ==
  /\ Len(growthRateEntries) = 3
  /\ growthRateEntries[1].cagr = growthRateEntries[3].cagr
  /\ growthRateEntries[2].cagr > growthRateEntries[1].cagr
  /\ chartType = "growthComparison"
  /\ rendered[1].data[1].name = "Email"

\* C21: the counts table has 11 rows, one per year 2015..2025 in ascending
\* order, each with the six categories and a Total; the percentage table
\* has a row for the same years in the same order, each with the six
\* categories.
C21_TablesCoverElevenYears ==
  /\ Len(locationTrendsData) = 11
  /\ Len(percentageDistributionData) = 11
  /\ \A i \in 1..Len(locationTrendsData) :
        /\ locationTrendsData[i]["year"] = 2014 + i
        /\ DOMAIN locationTrendsData[i] = CategorySet \cup {"year", "Total"}
        /\ percentageDistributionData[i]["year"] = locationTrendsData[i]["year"]
        /\ DOMAIN percentageDistributionData[i] = PctKeys \cup {"year"}

C21_Witness ==
  /\ locationTrendsData[1]["year"] = 2015
  /\ locationTrendsData[11]["year"] = 2025
  /\ "Other" \in DOMAIN locationTrendsData[7]
  /\ chartType = "absolute"
  /\ Len(rendered[1].data) = 11

\* C24: the active view is the value of the most recent selection, or
\* absolute when there was none, whatever was selected before; and a
\* selection of the view that is already active leaves the derived tables
\* and the chart rendered as they were.
C24_ActiveViewIsLastSelection ==
  /\ [](chartType = IF selections = <<>> THEN "absolute" ELSE Last(selections))
  /\ [][ chartType' = chartType =>
            /\ rendered' = rendered
            /\ networkServerGrowthData' = networkServerGrowthData
            /\ locationGrowthRates' = locationGrowthRates
            /\ locationTrendsData' = locationTrendsData ]_vars

C24_Witness ==
  /\ Len(selections) = MaxHistory
  /\ selections[Len(selections) - 2] = "percentage"
  /\ selections[Len(selections) - 1] = "stacked"
  /\ Last(selections) = "stacked"
  /\ chartType = "stacked"

\* C25: in the chart rendered, the axis key and every series key is a
\* field of every row of the chart's data.
C25_KeysPresentInEveryRow ==
  \A k \in 1..Len(rendered) : \A i \in 1..Len(rendered[k].data) :
     /\ rendered[k].categoryAxisKey \in DOMAIN rendered[k].data[i]
     /\ \A j \in 1..Len(rendered[k].series) :
           /\ rendered[k].series[j].dataKey \in DOMAIN rendered[k].data[i]
           /\ "children" \in DOMAIN rendered[k].series[j] =>
                 \A c \in 1..Len(rendered[k].series[j].children) :
                    rendered[k].series[j].children[c].dataKey
                       \in DOMAIN rendered[k].data[i]

C25_Witness ==
  /\ chartType = "percentage"
  /\ Len(rendered[1].series) = 6
  /\ rendered[1].series[6].dataKey = "Desktop Computer (%)"
  /\ Len(rendered[1].data) = 11
  /\ Len(selections) = 2

\* C26: the growth series has exactly one entry for every row of the counts
\* table with year < 2025, the oldest year 2015 included, and none for any
\* other row; the entry of the oldest year has growth 0.
C26_GrowthSeriesKeepsOldestYear ==
  /\ \A i \in 1..Len(locationTrendsData) :
        Cardinality(GrowthEntries(locationTrendsData[i]["year"]))
          = (IF locationTrendsData[i]["year"] < 2025 THEN 1 ELSE 0)
  /\ locationTrendsData[1]["year"] = 2015
  /\ \A k \in GrowthEntries(locationTrendsData[1]["year"]) :
        /\ k = 1
        /\ networkServerGrowthData[k].growth = Finite(0)

C26_Witness ==
  /\ locationTrendsData[1]["year"] = 2015
  /\ GrowthEntries(2015) = {1}
  /\ chartType = "networkServerGrowth"
  /\ rendered[1].data[1].year = 2015

\* C27: the CAGR ranking is a permutation of the list of CAGR entries: six
\* entries, every category exactly once, each with the cagr of its entry.
C27_RankingIsPermutation ==
  /\ Len(locationGrowthRates) = 6
  /\ Len(growthRateEntries) = 6
  /\ {locationGrowthRates[k].name : k \in 1..Len(locationGrowthRates)} = CategorySet
  /\ \A i \in 1..Len(growthRateEntries) :
        Cardinality({ k \in 1..Len(locationGrowthRates) :
                        locationGrowthRates[k].name = growthRateEntries[i].name }) = 1
  /\ \A i \in 1..Len(growthRateEntries) :
        \E k \in 1..Len(locationGrowthRates) :
           locationGrowthRates[k] = growthRateEntries[i]

C27_Witness ==
  /\ growthRateEntries[3].name = "Electronic Medical Record"
  /\ locationGrowthRates[4] = growthRateEntries[3]
  /\ locationGrowthRates[3] = growthRateEntries[4]
  /\ chartType = "growthComparison"

\* C28: over a counts table of non-negative Network Server counts every
\* growth value of the growth series is a finite number.
C28_GrowthAlwaysFinite ==
  (\A i \in 1..Len(locationTrendsData) : locationTrendsData[i]["Network Server"] >= 0)
    => \A k \in 1..Len(networkServerGrowthData) :
          networkServerGrowthData[k].growth.kind = "finite"

C28_Witness ==
  /\ Len(locationTrendsData) = 2
  /\ locationTrendsData[1]["Network Server"] = 0
  /\ locationTrendsData[2]["Network Server"] = 0
  /\ Len(networkServerGrowthData) = 2
  /\ chartType = "networkServerGrowth"

\* arbitrary-size naturals as sequences of limbs in base 10000, least
\* significant first
RECURSIVE BigOf(_)
BigOf(n) == IF n = 0 THEN <<>> ELSE <<n % 10000>> \o BigOf(n \div 10000)

\* big * m + carry, for a natural m small enough for limb * m to fit
RECURSIVE BigTimes(_, _, _)
BigTimes(big, m, carry) ==
  IF big = <<>>
    THEN BigOf(carry)
    ELSE <<(big[1] * m + carry) % 10000>>
           \o BigTimes(Tail(big), m, (big[1] * m + carry) \div 10000)

\* big * m^n
RECURSIVE BigPower(_, _, _)
BigPower(big, m, n) ==
  IF n = 0 THEN big ELSE BigPower(BigTimes(big, m, 0), m, n - 1)

BigLimb(big, i) == IF i <= Len(big) THEN big[i] ELSE 0

BigLess(a, b) ==
  \E i \in 1..(Len(a) + Len(b)) :
     /\ BigLimb(a, i) < BigLimb(b, i)
     /\ \A j \in (i + 1)..(Len(a) + Len(b)) : BigLimb(a, j) = BigLimb(b, j)

\* the window of the CAGR values
CagrFirstYear == 2015
CagrLastYear == 2024
CagrYears == CagrLastYear - CagrFirstYear

\* cagr (in hundredths of a percent) is ((last / first)^(1/years) - 1) * 100
\* rounded to two decimals: the exact rate lies within half a hundredth of
\* cagr, that is
\*   first * (1 + (cagr - 0.5)/10000)^years <= last
\*                                          <  first * (1 + (cagr + 0.5)/10000)^years
IsRoundedCagr(cagr, first, last) ==
  LET target == BigPower(BigOf(last), 20000, CagrYears)
  IN  /\ 20000 + 2 * cagr - 1 > 0
      /\ ~BigLess(target, BigPower(BigOf(first), 20000 + 2 * cagr - 1, CagrYears))
      /\ BigLess(target, BigPower(BigOf(first), 20000 + 2 * cagr + 1, CagrYears))

\* C23: each CAGR value of the ranking is the compound annual growth rate of
\* its category from its 2015 count to its 2024 count in the counts table,
\* rounded to two decimals.
C23_CagrMatchesCounts ==
  \A k \in 1..Len(locationGrowthRates) :
     IsRoundedCagr(locationGrowthRates[k].cagr,
                   RowOf(locationTrendsData, CagrFirstYear)[locationGrowthRates[k].name],
                   RowOf(locationTrendsData, CagrLastYear)[locationGrowthRates[k].name])

C23_Witness ==
  /\ chartType = "growthComparison"
  /\ rendered[1].data[1] = [name |-> "Network Server", cagr |-> 4592]
  /\ RowOf(locationTrendsData, CagrFirstYear)["Network Server"] = 11
  /\ RowOf(locationTrendsData, CagrLastYear)["Network Server"] = 330
  /\ locationGrowthRates[6].cagr < 0

\* a year row of the counts table lacks a category
MissingCategory ==
  \E i \in 1..Len(locationTrendsData) :
     ~(CategorySet \subseteq DOMAIN locationTrendsData[i])

\* the chart rendered draws a series over a row that lacks the series' key
RendersGap ==
  \E k \in 1..Len(rendered) : \E i \in 1..Len(rendered[k].data) :
     \E j \in 1..Len(rendered[k].series) :
        rendered[k].series[j].dataKey \notin DOMAIN rendered[k].data[i]

\* the chart rendered draws a growth value that is no number
RendersNonNumeric ==
  \E k \in 1..Len(rendered) :
     /\ rendered[k].view = "networkServerGrowth"
     /\ \E i \in 1..Len(rendered[k].data) :
           rendered[k].data[i].growth.kind # "finite"

\* C22: over a counts table in which a year row lacks a category the
\* component fails at initialization: it renders no chart at all, so none
\* with a gap and none with a non-numeric value.
C22_MissingCategoryFailsFast ==
  MissingCategory => (rendered = <<>> /\ ~RendersGap /\ ~RendersNonNumeric)

\* what the component does instead: a chart with a gap is on screen
C22_GapOnScreen == MissingCategory /\ RendersGap

\* what the component does instead: a NaN growth value is on screen
C22_NaNOnScreen == MissingCategory /\ RendersNonNumeric

====
